---- MODULE Spec2Model ----
(***************************************************************************)
(* A model of FarPatchTablesFactory (opensubdiv/far/patchTablesFactory.h): *)
(* the two passes of the constructor over the faces of an Hbr half-edge    *)
(* mesh, and Create: the patch-array planning, the population of the       *)
(* control-vertex and quad-offset tables and the vertex valence table.     *)
(*                                                                         *)
(* The Hbr mesh itself (opensubdiv/hbr) is not part of the modelled file;  *)
(* its queries are modelled from the design document: a mesh is a list of  *)
(* faces, each a counter-clockwise list of vertex ids, and every adjacency *)
(* query is derived from that list.  assert() is modelled as enabled: a    *)
(* failed assertion aborts the run (pc = "aborted").                       *)
(***************************************************************************)
EXTENDS Integers, Sequences, FiniteSets, TLC

VARIABLES
    mesh,            \* index of the mesh topology (into Meshes)
    hbr,             \* the HbrMesh: its faces and their connectivity
    coarse,          \* TRUE: the faces are coarse faces; FALSE: child faces
    holes,           \* faces f with f->IsHole()
    fTagged,         \* faces with _adaptiveFlags.isTagged
    vTagged,         \* vertices with _adaptiveFlags.isTagged
    remapTable,      \* _remapTable : vertex id -> output index
    vWasTagged,      \* vertices with _adaptiveFlags.wasTagged
    eTriHead,        \* half-edges with _adaptiveFlags.isTriangleHead
    eTransition,     \* half-edges with _adaptiveFlags.isTransition
    childTags,       \* tags written on child-level entities by the first pass
    flags,           \* per face: patchType, transitionType, rots, brots, bverts, isCritical
    patchCtr,        \* _patchCtr[6]
    outcome,         \* per face: the branches of the second pass the face took
    pc,              \* position of the program
    idx,             \* loop index (face or vertex)
    maxvalence,      \* argument of Create
    parray,          \* result->_patchArrays
    offsets,         \* voffset, poffset, qoffset of the planning loop
    iptrs,           \* CVPointers iptrs[6], as indices into patches
    patches,         \* result->_patches
    quadG,           \* quad_G_C0 and quad_G_C1 with their write pointers
    lastCall,        \* the writes of the last getOneRing / getQuadOffsets call
    table,           \* result->_vertexValenceTable
    lastRow,         \* the writes of the last valence-table row
    quadOffsetTable, \* result->_quadOffsetTable
    visited,         \* faces the second loop has passed, when its order is free
    alone            \* per face: its round of the second loop, taken at the loop's start

vars == << mesh, hbr, coarse, holes, fTagged, vTagged, remapTable, vWasTagged,
           eTriHead, eTransition, childTags, flags, patchCtr, outcome, pc, idx,
           maxvalence, parray, offsets, iptrs, patches, quadG, lastCall,
           table, lastRow, quadOffsetTable, visited, alone >>

----------------------------------------------------------------------------
(* Mesh topologies.  Vertex ids and face indices start at 0.               *)

NoEdge == << -1, -1 >>
NoVert == -1

\* vertex id of grid point (x, y) of a grid that is w cells wide
GridVertex(w, x, y) == y * (w + 1) + x

\* cell c of a grid that is w cells wide, counter-clockwise
GridCell(w, c) ==
    LET x == c % w
        y == c \div w
    IN  << GridVertex(w, x, y), GridVertex(w, x + 1, y),
           GridVertex(w, x + 1, y + 1), GridVertex(w, x, y + 1) >>

GridFaces(w, cells) == [k \in 1..Len(cells) |-> GridCell(w, cells[k])]

\* tagsets: the sets of tagged faces the inputs are drawn from;
\* holeable, vtaggable: the faces that may be holes, the vertices that may be tagged
Meshes ==
    << \* 1: a single quad
       [ faces |-> GridFaces(1, <<0>>), nverts |-> 4,
         tagsets |-> { {}, {0} }, holeable |-> {0}, vtaggable |-> {0} ],
       \* 2: a 3x3 grid of quads
       [ faces |-> GridFaces(3, <<0, 1, 2, 3, 4, 5, 6, 7, 8>>), nverts |-> 16,
         tagsets |-> { {}, {4}, {1}, {3}, {5}, {7}, {1, 3}, {1, 7}, {3, 5},
                       {1, 3, 5}, {1, 3, 7}, {1, 3, 5, 7} },
         holeable |-> {1}, vtaggable |-> {5} ],
       \* 3: a 4x4 grid of quads
       [ faces |-> GridFaces(4, <<0, 1, 2, 3, 4, 5, 6, 7, 8, 9, 10, 11, 12, 13, 14, 15>>),
         nverts |-> 25,
         tagsets |-> { {}, {5}, {10} }, holeable |-> {}, vtaggable |-> {} ],
       \* 4: a plus: the centre cell of a 3x3 grid and its four edge neighbours
       \*    (the four corner vertices of the grid are unconnected)
       [ faces |-> GridFaces(3, <<1, 3, 4, 5, 7>>), nverts |-> 16,
         tagsets |-> { {}, {2}, {0}, {0, 4}, {0, 1, 3, 4} }, holeable |-> {0}, vtaggable |-> {} ],
       \* 5: a 3x3 grid without its last corner cell (a reflex boundary vertex)
       [ faces |-> GridFaces(3, <<0, 1, 2, 3, 4, 5, 6, 7>>), nverts |-> 16,
         tagsets |-> { {}, {1}, {5}, {1, 5} }, holeable |-> {}, vtaggable |-> {} ],
       \* 6: a cube without its top face (interior vertices of valence 3)
       [ faces |-> << <<0, 3, 2, 1>>, <<0, 1, 5, 4>>, <<1, 2, 6, 5>>,
                      <<2, 3, 7, 6>>, <<3, 0, 4, 7>> >>, nverts |-> 8,
         tagsets |-> { {}, {1} }, holeable |-> {2}, vtaggable |-> {0} ],
       \* 7: five quads around a vertex of valence 5
       [ faces |-> << <<0, 1, 2, 3>>, <<0, 3, 4, 5>>, <<0, 5, 6, 7>>,
                      <<0, 7, 8, 9>>, <<0, 9, 10, 1>> >>, nverts |-> 11,
         tagsets |-> { {}, {2} }, holeable |-> {}, vtaggable |-> {} ],
       \* 8: a quad and a triangle sharing an edge
       [ faces |-> << <<0, 1, 2, 3>>, <<1, 4, 2>> >>, nverts |-> 5,
         tagsets |-> { {}, {0}, {1}, {0, 1} }, holeable |-> {}, vtaggable |-> {} ],
       \* 9: a cube (no boundary, every vertex of valence 3)
       [ faces |-> << <<0, 3, 2, 1>>, <<0, 1, 5, 4>>, <<1, 2, 6, 5>>,
                      <<2, 3, 7, 6>>, <<3, 0, 4, 7>>, <<4, 5, 6, 7>> >>, nverts |-> 8,
         tagsets |-> { {}, {0} }, holeable |-> {}, vtaggable |-> {} ],
       \* 10: a 3x3 grid without two opposite corner cells (the centre cell has
       \*     two boundary vertices, diagonally opposite)
       [ faces |-> GridFaces(3, <<1, 2, 3, 4, 5, 6, 7>>), nverts |-> 16,
         tagsets |-> { {} }, holeable |-> {}, vtaggable |-> {} ] >>

NumMeshes == Len(Meshes)

FacesOf(m) == 0 .. (Len(Meshes[m].faces) - 1)
VertsOf(m) == 0 .. (Meshes[m].nverts - 1)
NumVerticesOf(m, f) == Len(Meshes[m].faces[f + 1])
HalfEdgesOf(m) == { << f, j >> : f \in FacesOf(m), j \in 0..3 } \cap
                  UNION { { << f, j >> : j \in 0 .. (NumVerticesOf(m, f) - 1) } : f \in FacesOf(m) }

OrgOf(m, e) == Meshes[m].faces[e[1] + 1][e[2] + 1]
NextOf(m, e) == << e[1], (e[2] + 1) % NumVerticesOf(m, e[1]) >>
PrevOf(m, e) == << e[1], (e[2] + NumVerticesOf(m, e[1]) - 1) % NumVerticesOf(m, e[1]) >>
DestOf(m, e) == OrgOf(m, NextOf(m, e))

EdgeLess(a, b) == a[1] < b[1] \/ (a[1] = b[1] /\ a[2] < b[2])
MinEdge(S) == CHOOSE e \in S : \A o \in S : o = e \/ EdgeLess(e, o)

OppOf(m, e) ==
    LET S == { o \in HalfEdgesOf(m) : OrgOf(m, o) = DestOf(m, e) /\ DestOf(m, o) = OrgOf(m, e) }
    IN  IF S = {} THEN NoEdge ELSE MinEdge(S)

OutOf(m, v) == { e \in HalfEdgesOf(m) : OrgOf(m, e) = v }

IncidentOf(m, v) ==
    LET out == OutOf(m, v)
        bnd == { e \in out : OppOf(m, e) = NoEdge }
    IN  IF out = {} THEN NoEdge
        ELSE IF bnd # {} THEN MinEdge(bnd) ELSE MinEdge(out)

\* the outgoing half-edges of a vertex in the order v->GetNextEdge visits them
\* from `edge` on, until the walk is back at `start` or falls off a boundary
RECURSIVE FanFrom(_, _, _)
FanFrom(m, start, edge) ==
    LET nxt == OppOf(m, PrevOf(m, edge))
    IN  << edge >> \o (IF nxt = start \/ nxt = NoEdge THEN << >> ELSE FanFrom(m, start, nxt))

FanOf(m, v) ==
    IF IncidentOf(m, v) = NoEdge THEN << >> ELSE FanFrom(m, IncidentOf(m, v), IncidentOf(m, v))

\* HbrVertex::ApplyOperatorSurroundingVertices: the destination of every fan
\* edge, and past the last edge of a boundary fan the origin of its previous edge
RingOf(m, v) ==
    LET fan  == FanOf(m, v)
        last == fan[Len(fan)]
    IN  IF fan = << >> THEN << >>
        ELSE [ k \in 1..Len(fan) |-> DestOf(m, fan[k]) ] \o
             (IF OppOf(m, PrevOf(m, last)) = NoEdge THEN << OrgOf(m, PrevOf(m, last)) >> ELSE << >>)

\* the half-edge from v to d, if the mesh has one
EdgeOf(m, v, d) ==
    LET S == { e \in OutOf(m, v) : DestOf(m, e) = d }
    IN  IF S = {} THEN NoEdge ELSE MinEdge(S)

\* the per-mesh adjacency, computed once
Topo ==
    [ m \in 1..NumMeshes |->
        [ faces    |-> Meshes[m].faces,
          nverts   |-> Meshes[m].nverts,
          opp      |-> [ e \in HalfEdgesOf(m) |-> OppOf(m, e) ],
          incident |-> [ v \in VertsOf(m) |-> IncidentOf(m, v) ],
          fan      |-> [ v \in VertsOf(m) |-> FanOf(m, v) ],
          ring     |-> [ v \in VertsOf(m) |-> RingOf(m, v) ],
          edge     |-> [ v \in VertsOf(m) |-> [ d \in VertsOf(m) |-> EdgeOf(m, v, d) ] ],
          starts   |-> [ v \in VertsOf(m) |->
                           Cardinality({ e \in OutOf(m, v) : OppOf(m, e) = NoEdge }) ] ] ]

----------------------------------------------------------------------------
(* The Hbr queries the factory makes, on the mesh of the current state.    *)

NoFace == -1

Faces == 0 .. (Len(hbr.faces) - 1)
Verts == 0 .. (hbr.nverts - 1)
GetNumFaces == Cardinality(Faces)
GetNumMeshVertices == hbr.nverts

GetNumVertices(f) == Len(hbr.faces[f + 1])
GetVertex(f, j) == hbr.faces[f + 1][j + 1]
GetEdge(f, j) == << f, j >>
FaceVertices(f) == { GetVertex(f, j) : j \in 0 .. (GetNumVertices(f) - 1) }
FaceEdges(f) == { GetEdge(f, j) : j \in 0 .. (GetNumVertices(f) - 1) }

GetOpposite(e) == IF e = NoEdge THEN NoEdge ELSE hbr.opp[e]
GetNext(e) == IF e = NoEdge THEN NoEdge ELSE << e[1], (e[2] + 1) % GetNumVertices(e[1]) >>
GetPrev(e) ==
    IF e = NoEdge THEN NoEdge
    ELSE << e[1], (e[2] + GetNumVertices(e[1]) - 1) % GetNumVertices(e[1]) >>
GetOrgVertex(e) == IF e = NoEdge THEN NoVert ELSE GetVertex(e[1], e[2])
GetDestVertex(e) == GetOrgVertex(GetNext(e))
GetLeftFace(e) == IF e = NoEdge THEN NoFace ELSE e[1]
GetRightFace(e) == GetLeftFace(GetOpposite(e))

\* v->GetIncidentEdge(), v->GetNextEdge(e), v->GetEdge(dest)
GetIncidentEdge(v) == IF v = NoVert THEN NoEdge ELSE hbr.incident[v]
GetNextEdge(e) == GetOpposite(GetPrev(e))
VertexGetEdge(v, dest) ==
    IF v = NoVert \/ dest = NoVert THEN NoEdge ELSE hbr.edge[v][dest]

SurroundingVertices(v) == hbr.ring[v]
VertexFan(v) == hbr.fan[v]

IsConnected(v) == GetIncidentEdge(v) # NoEdge
OnBoundary(v) == IsConnected(v) /\ GetOpposite(GetIncidentEdge(v)) = NoEdge
IsSingular(v) == hbr.starts[v] > 1
GetValence(v) == Len(SurroundingVertices(v))
\* Catmull-Clark: an interior vertex is regular when its valence is 4
RegularValence == 4
IsExtraordinary(v) == IsSingular(v) \/ GetValence(v) # RegularValence

\* Catmull-Clark: a face that is not a quad
FaceIsExtraordinary(f) == GetNumVertices(f) # 4
IsHole(f) == f \in holes
IsCoarse(f) == coarse
HasParent(f) == ~coarse

\* adaptive refinement subdivides the tagged faces that are not holes: their
\* edges and vertices have children
Refined(f) == f # NoFace /\ f \in fTagged /\ f \notin holes
EdgeHasChild(e) == Refined(GetLeftFace(e)) \/ Refined(GetRightFace(e))
VertexHasChild(v) == \E f \in Faces : v \in FaceVertices(f) /\ Refined(f)

hasTaggedVertices(f) == FaceVertices(f) \cap vWasTagged # {}

----------------------------------------------------------------------------
(* Face flags and counters.                                                *)

kTransition0 == 0
kTransition1 == 1
kTransition2 == 2
kTransition3 == 3
kTransition4 == 4
kNoTransition == 5

NumPatterns == 6
Patterns == 0 .. (NumPatterns - 1)

\* HbrFace::AdaptiveFlags as its constructor leaves it
InitialFlags ==
    [ patchType |-> "kUnknown", transitionType |-> kNoTransition, rots |-> 0,
      brots |-> 0, bverts |-> 0, isCritical |-> FALSE, isExtraordinary |-> FALSE ]

\* PatchTypes<int>: R, B[4], C[4], G[2], zeroed by its constructor
ZeroCounter ==
    [ R |-> 0, B |-> [ r \in 0..3 |-> 0 ], C |-> [ r \in 0..3 |-> 0 ], G |-> [ g \in 0..1 |-> 0 ] ]

\* an increment that ignores the rotation of the bucket
Increment_Unrotated(ctr, p, kind, r) ==
    CASE kind = "R" -> [ ctr EXCEPT ![p].R = @ + 1 ]
      [] kind = "B" -> [ ctr EXCEPT ![p].B[0] = @ + 1 ]
      [] kind = "C" -> [ ctr EXCEPT ![p].C[0] = @ + 1 ]
      [] kind = "G" -> [ ctr EXCEPT ![p].G[r] = @ + 1 ]

\* ctr[p].kind[r]++  (r is ignored for R)
Increment(ctr, p, kind, r) ==
    CASE kind = "R" -> [ ctr EXCEPT ![p].R = @ + 1 ]
      [] kind = "B" -> [ ctr EXCEPT ![p].B[r] = @ + 1 ]
      [] kind = "C" -> [ ctr EXCEPT ![p].C[r] = @ + 1 ]
      [] kind = "G" -> [ ctr EXCEPT ![p].G[r] = @ + 1 ]

\* the number of loop rounds before the first j in 0..3 with P[j] (4 if none)
FirstIndex(P) ==
    IF \E j \in 0..3 : P[j] THEN CHOOSE j \in 0..3 : P[j] /\ \A k \in 0 .. (j - 1) : ~P[k] ELSE 4

----------------------------------------------------------------------------
(* Helpers of the class.                                                   *)

vertexHasTaggedNeighbors(v) ==
    \E k \in 1..Len(VertexFan(v)) :
        LET right == GetRightFace(VertexFan(v)[k])
            left  == GetLeftFace(VertexFan(v)[k])
        IN  \/ right # NoFace /\ ~hasTaggedVertices(right)
            \/ left # NoFace /\ ~hasTaggedVertices(left)

computeBoundaryPatchRotation(f) ==
    FirstIndex([ i \in 0..3 |-> OnBoundary(GetVertex(f, i)) /\ OnBoundary(GetVertex(f, (i + 1) % 4)) ])

computeCornerPatchRotation(f) ==
    FirstIndex([ i \in 0..3 |-> ~OnBoundary(GetVertex(f, (i + 3) % 4)) ])

----------------------------------------------------------------------------
(* The inputs and the state after construction of the mesh.                *)

\* the vertex remapping table FarMeshFactory hands over: a permutation of the ids
RemapTables(m) == { [ v \in VertsOf(m) |-> Meshes[m].nverts - 1 - v ],
                    [ v \in VertsOf(m) |-> v ] }

Init ==
    /\ mesh \in 1..NumMeshes
    /\ hbr = Topo[mesh]
    /\ coarse \in BOOLEAN
    /\ holes \in { {} } \cup { { h } : h \in Meshes[mesh].holeable }
    /\ fTagged \in Meshes[mesh].tagsets
    /\ vTagged \in { {} } \cup { { v } : v \in Meshes[mesh].vtaggable }
    /\ remapTable \in RemapTables(mesh)
    /\ vWasTagged \in (IF coarse THEN { {} } ELSE { {}, VertsOf(mesh) })
    /\ eTriHead = {}
    /\ eTransition = {}
    /\ childTags = {}
    /\ flags = [ f \in FacesOf(mesh) |-> InitialFlags ]
    /\ patchCtr = [ p \in Patterns |-> ZeroCounter ]
    /\ outcome = [ f \in FacesOf(mesh) |-> {} ]
    /\ pc = "pass1"
    /\ idx = 0
    /\ maxvalence = 0
    /\ parray = << >>
    /\ offsets = [ voffset |-> 0, poffset |-> 0, qoffset |-> 0 ]
    /\ iptrs = << >>
    /\ patches = << >>
    /\ quadG = << >>
    /\ lastCall = << >>
    /\ table = << >>
    /\ lastRow = << >>
    /\ quadOffsetTable = << >>
    /\ visited = {}
    /\ alone = << >>

createVars == << maxvalence, parray, offsets, iptrs, patches, quadG, lastCall, table, lastRow,
                quadOffsetTable >>
inputVars == << mesh, hbr, coarse, holes, fTagged, vTagged, remapTable >>
orderVars == << visited, alone >>

----------------------------------------------------------------------------
(* The constructor, first pass: one face per step.                         *)

Xor(a, b) == (a /\ ~b) \/ (~a /\ b)

\* the edges of f that the first pass marks isTransition
TransitionEdges(f) ==
    { e \in FaceEdges(f) :
        /\ GetRightFace(e) # NoFace
        /\ EdgeHasChild(e)
        /\ Xor(GetLeftFace(e) \in fTagged, GetRightFace(e) \in fTagged) }

\* the child edges the first pass marks isWatertightCritical
CriticalChildEdges(f) ==
    { << "isWatertightCritical", e, "org" >> :
        e \in { t \in TransitionEdges(f) : VertexHasChild(GetOrgVertex(t)) } }
    \cup
    { << "isWatertightCritical", e, "dst" >> :
        e \in { t \in TransitionEdges(f) : VertexHasChild(GetDestVertex(t)) } }

\* a first pass that marks the vertices of tagged faces as well
FirstPass_MarksTagged ==
    /\ pc = "pass1"
    /\ LET f == idx IN
        /\ childTags' = childTags
              \cup (IF f \in fTagged /\ ~IsHole(f) THEN { << "wasTagged", f >> } ELSE {})
              \cup CriticalChildEdges(f)
        /\ vWasTagged' = IF IsCoarse(f) \/ f \in fTagged
                           THEN vWasTagged \cup FaceVertices(f) ELSE vWasTagged
        /\ eTriHead' = IF f \in fTagged
                        THEN eTriHead \cup FaceEdges(f)
                               \cup ({ GetOpposite(e) : e \in FaceEdges(f) } \ { NoEdge })
                        ELSE eTriHead
        /\ eTransition' = eTransition \cup TransitionEdges(f)
    /\ idx' = IF idx + 1 < GetNumFaces THEN idx + 1 ELSE 0
    /\ pc' = IF idx + 1 < GetNumFaces THEN "pass1" ELSE "pass2"
    /\ UNCHANGED << inputVars, orderVars, flags, patchCtr, outcome, createVars >>

FirstPass ==
    /\ pc = "pass1"
    /\ LET f == idx IN
        /\ childTags' = childTags
              \cup (IF f \in fTagged /\ ~IsHole(f) THEN { << "wasTagged", f >> } ELSE {})
              \cup CriticalChildEdges(f)
        /\ vWasTagged' = IF IsCoarse(f) THEN vWasTagged \cup FaceVertices(f) ELSE vWasTagged
        /\ eTriHead' = IF f \in fTagged
                        THEN eTriHead \cup FaceEdges(f)
                               \cup ({ GetOpposite(e) : e \in FaceEdges(f) } \ { NoEdge })
                        ELSE eTriHead
        /\ eTransition' = eTransition \cup TransitionEdges(f)
    /\ idx' = IF idx + 1 < GetNumFaces THEN idx + 1 ELSE 0
    /\ pc' = IF idx + 1 < GetNumFaces THEN "pass1" ELSE "pass2"
    /\ UNCHANGED << inputVars, orderVars, flags, patchCtr, outcome, createVars >>

----------------------------------------------------------------------------
(* The constructor, second pass: one face per step.                        *)

IsTriangleHead(e) == e \in eTriHead

\* the locals the scan over the 4 vertices and edges of f computes
boundaryVerts(f) == Cardinality({ j \in 0..3 : OnBoundary(GetVertex(f, j)) })

isExtraordinary(f) ==
    \E j \in 0..3 :
        LET v == GetVertex(f, j)
        IN  IF OnBoundary(v) THEN IsSingular(v) \/ GetValence(v) > 3 ELSE IsExtraordinary(v)

isWatertightCritical(f) ==
    HasParent(f) /\ \E j \in 0..3 : vertexHasTaggedNeighbors(GetVertex(f, j))

isTagged(f) == \E j \in 0..3 : GetVertex(f, j) \in vTagged
wasTagged(f) == \E j \in 0..3 : GetVertex(f, j) \in vWasTagged

triangleHeads(f) == Cardinality({ j \in 0..3 : IsTriangleHead(GetEdge(f, j)) })

isConnected(f) ==
    \E j \in 0..3 : IsTriangleHead(GetEdge(f, j)) /\ IsTriangleHead(GetEdge(f, (j + 1) % 4))

\* a guard that looks at wasTagged only
ClassifyGuard_NoTagTest(f) == wasTagged(f)

\* "if (not isTagged and wasTagged)"
ClassifyGuard(f) == ~isTagged(f) /\ wasTagged(f)

\* "if (not isExtraordinary and boundaryVerts!=1)"
\* a test that also looks at what the loop has counted so far
RegularGuard_UntilCounted(f) ==
    ~isExtraordinary(f) /\ boundaryVerts(f) # 1 /\ patchCtr[0].R = 0

RegularGuard(f) == ~isExtraordinary(f) /\ boundaryVerts(f) # 1

\* the flags written before the classification proper
ScannedFlags(f) ==
    [ flags[f] EXCEPT !.bverts = boundaryVerts(f),
                      !.isCritical = isWatertightCritical(f),
                      !.patchType = IF wasTagged(f) THEN "kEnd" ELSE @ ]

\* a full patch that is not counted
FullPatch_Uncounted(f, fl, ctr) ==
    [ fl |-> [ fl EXCEPT !.patchType = "kFull" ], ctr |-> ctr, out |-> { "full" }, ok |-> TRUE ]

\* triangleHeads == 0, full patch
FullPatch(f, fl, ctr) ==
    CASE boundaryVerts(f) = 0 ->
           [ fl |-> [ fl EXCEPT !.patchType = "kFull" ],
             ctr |-> Increment(ctr, 0, "R", 0), out |-> { "full" }, ok |-> TRUE ]
      [] boundaryVerts(f) = 2 ->
           [ fl |-> [ fl EXCEPT !.patchType = "kFull",
                                !.rots = computeBoundaryPatchRotation(f) % 4 ],
             ctr |-> Increment(ctr, 0, "B", 0), out |-> { "full" }, ok |-> TRUE ]
      [] boundaryVerts(f) = 3 ->
           [ fl |-> [ fl EXCEPT !.patchType = "kFull",
                                !.rots = computeCornerPatchRotation(f) % 4 ],
             ctr |-> Increment(ctr, 0, "C", 0), out |-> { "full" }, ok |-> TRUE ]
      [] OTHER ->
           [ fl |-> [ fl EXCEPT !.patchType = "kFull" ],
             ctr |-> ctr, out |-> { "full" }, ok |-> TRUE ]

\* triangleHeads == 0, Gregory patch
GregoryPatch(f, fl, ctr) ==
    [ fl |-> [ fl EXCEPT !.patchType = "kGregory" ],
      ctr |-> Increment(ctr, 0, "G", IF boundaryVerts(f) = 0 THEN 0 ELSE 1),
      out |-> { "gregory" }, ok |-> TRUE ]

\* a rotation loop that stops at the first head edge, whatever the pattern
TransitionRotation_FirstHead(f) ==
    FirstIndex([ j \in 0..3 |-> IsTriangleHead(GetEdge(f, j)) ]) % 4

\* a rotation loop that stops at the first edge that is not a head
TransitionRotation_FirstNonHead(f) ==
    FirstIndex([ j \in 0..3 |-> ~IsTriangleHead(GetEdge(f, j)) ])

\* the switch over triangleHeads: the rounds of the rotation loop
TransitionRotation(f) ==
    LET head == [ j \in 0..3 |-> IsTriangleHead(GetEdge(f, j)) ]
    IN  CASE triangleHeads(f) = 1 -> FirstIndex(head)
          [] triangleHeads(f) = 2 ->
               IF isConnected(f)
               THEN FirstIndex([ j \in 0..3 |-> head[j] /\ head[(j + 3) % 4] ])
               ELSE FirstIndex(head)
          [] triangleHeads(f) = 3 -> FirstIndex([ j \in 0..3 |-> ~head[j] ])
          [] OTHER -> 0

\* every transition face taken for a two-head corner one
TransitionPattern_Corner(f) == kTransition1

\* the switch over triangleHeads: the transition type
TransitionPattern(f) ==
    CASE triangleHeads(f) = 1 -> kTransition0
      [] triangleHeads(f) = 2 -> IF isConnected(f) THEN kTransition1 ELSE kTransition4
      [] triangleHeads(f) = 3 -> kTransition2
      [] triangleHeads(f) = 4 -> kTransition3
      [] OTHER -> kNoTransition

\* triangleHeads > 0
TransitionPatch(f, fl, ctr) ==
    LET t    == [ fl EXCEPT !.rots = (@ + TransitionRotation(f)) % 4,
                            !.transitionType = TransitionPattern(f) ]
        tidx == t.transitionType
        rot  == IF boundaryVerts(f) = 2 THEN computeBoundaryPatchRotation(f)
                ELSE computeCornerPatchRotation(f)
        b    == [ t EXCEPT !.brots = (4 - t.rots + rot) % 4, !.rots = rot % 4 ]
    IN  IF RegularGuard(f)
        THEN CASE boundaryVerts(f) = 0 ->
                    [ fl |-> t, ctr |-> Increment(ctr, tidx + 1, "R", 0),
                      out |-> { "transition" }, ok |-> TRUE ]
               [] boundaryVerts(f) = 2 ->
                    [ fl |-> b, ctr |-> Increment(ctr, tidx + 1, "B", b.brots),
                      out |-> { "transition" }, ok |-> TRUE ]
               [] boundaryVerts(f) = 3 ->
                    [ fl |-> b, ctr |-> Increment(ctr, tidx + 1, "C", b.brots),
                      out |-> { "transition" }, ok |-> TRUE ]
               [] OTHER ->     \* assert(0)
                    [ fl |-> t, ctr |-> ctr, out |-> { "transition" }, ok |-> FALSE ]
        ELSE [ fl |-> t, ctr |-> ctr, out |-> { "transition" }, ok |-> TRUE ]

\* one round of the second loop, for face f
SecondPassFace(f) ==
    LET fl == ScannedFlags(f)
    IN  IF FaceIsExtraordinary(f)
        THEN [ fl |-> flags[f], ctr |-> patchCtr, out |-> { "extraordinary" }, ok |-> TRUE ]
        ELSE IF IsHole(f)
        THEN [ fl |-> flags[f], ctr |-> patchCtr, out |-> { "hole" }, ok |-> TRUE ]
        ELSE IF f \in fTagged
        THEN [ fl |-> fl, ctr |-> patchCtr, out |-> { "tagged" }, ok |-> TRUE ]
        ELSE IF ~(fl.rots = 0 /\ GetNumVertices(f) = 4)
        THEN [ fl |-> fl, ctr |-> patchCtr, out |-> {}, ok |-> FALSE ]
        ELSE IF ~ClassifyGuard(f)
        THEN [ fl |-> fl, ctr |-> patchCtr, out |-> {}, ok |-> TRUE ]
        ELSE IF triangleHeads(f) = 0
        THEN IF RegularGuard(f) THEN FullPatch(f, fl, patchCtr)
                                ELSE GregoryPatch(f, fl, patchCtr)
        ELSE TransitionPatch(f, fl, patchCtr)

SecondPass ==
    /\ pc = "pass2"
    /\ LET r == SecondPassFace(idx) IN
        /\ flags' = [ flags EXCEPT ![idx] = r.fl ]
        /\ patchCtr' = r.ctr
        /\ outcome' = [ outcome EXCEPT ![idx] = @ \cup r.out ]
        /\ pc' = IF ~r.ok THEN "aborted"
                  ELSE IF idx + 1 < GetNumFaces THEN "pass2" ELSE "constructed"
        /\ idx' = IF r.ok /\ idx + 1 < GetNumFaces THEN idx + 1 ELSE 0
    /\ UNCHANGED << inputVars, orderVars, vWasTagged, eTriHead, eTransition, childTags, createVars >>

----------------------------------------------------------------------------
(* Patch descriptors and the planning loop of Create.                      *)

Descriptor(p, t, r) == [ pattern |-> p, type |-> t, rot |-> r ]

\* the descriptors of one pattern, in iteration order
PatternDescriptors(p) ==
    << Descriptor(p, "REGULAR", 0) >>
    \o [ k \in 1..4 |-> Descriptor(p, "BOUNDARY", k - 1) ]
    \o [ k \in 1..4 |-> Descriptor(p, "CORNER", k - 1) ]
    \o << Descriptor(p, "GREGORY", 0), Descriptor(p, "GREGORY_BOUNDARY", 0) >>

\* Descriptor::begin() .. Descriptor::end()
RECURSIVE DescriptorsFrom(_)
DescriptorsFrom(p) ==
    IF p >= NumPatterns THEN << >> ELSE PatternDescriptors(p) \o DescriptorsFrom(p + 1)

Descriptors == DescriptorsFrom(0)

GetNumControlVertices(desc) ==
    CASE desc.type = "REGULAR" -> 16
      [] desc.type = "BOUNDARY" -> 12
      [] desc.type = "CORNER" -> 9
      [] OTHER -> 4

\* PatchTypes::getValue
getValue(pt, desc) ==
    CASE desc.type = "REGULAR" -> pt.R
      [] desc.type = "BOUNDARY" -> pt.B[desc.rot]
      [] desc.type = "CORNER" -> pt.C[desc.rot]
      [] desc.type = "GREGORY" -> pt.G[0]
      [] desc.type = "GREGORY_BOUNDARY" -> pt.G[1]

\* PatchTypes::getValue as an lvalue: pt with the value of desc set to x
setValue(pt, desc, x) ==
    CASE desc.type = "REGULAR" -> [ pt EXCEPT !.R = x ]
      [] desc.type = "BOUNDARY" -> [ pt EXCEPT !.B[desc.rot] = x ]
      [] desc.type = "CORNER" -> [ pt EXCEPT !.C[desc.rot] = x ]
      [] desc.type = "GREGORY" -> [ pt EXCEPT !.G[0] = x ]
      [] desc.type = "GREGORY_BOUNDARY" -> [ pt EXCEPT !.G[1] = x ]

\* PatchTypes::getNumPatchArrays
CounterNumPatchArrays(pt) ==
    (IF pt.R # 0 THEN 1 ELSE 0)
    + Cardinality({ i \in 0..3 : pt.B[i] # 0 })
    + Cardinality({ i \in 0..3 : pt.C[i] # 0 })
    + Cardinality({ i \in 0..1 : pt.G[i] # 0 })

RECURSIVE SumNumPatchArrays(_, _)
SumNumPatchArrays(ctr, i) ==
    IF i >= NumPatterns THEN 0 ELSE CounterNumPatchArrays(ctr[i]) + SumNumPatchArrays(ctr, i + 1)

getNumPatchArrays == SumNumPatchArrays(patchCtr, 0)

\* an advance past every array
QuadOffsetAdvance_Always(desc, npatches) == npatches * 4

\* the quad-offset advance of an array of npatches patches
QuadOffsetAdvance(desc, npatches) == IF desc.type = "GREGORY" THEN npatches * 4 ELSE 0

\* st: [ parray, voffset, poffset, qoffset ]
pushPatchArray(desc, st, counter) ==
    LET npatches == getValue(counter, desc)
    IN  IF npatches > 0
        THEN [ parray  |-> Append(st.parray,
                              [ desc |-> desc, vertIndex |-> st.voffset,
                                patchIndex |-> st.poffset, npatches |-> npatches,
                                quadOffsetIndex |-> st.qoffset ]),
               voffset |-> st.voffset + npatches * GetNumControlVertices(desc),
               poffset |-> st.poffset + npatches,
               qoffset |-> st.qoffset + QuadOffsetAdvance(desc, npatches) ]
        ELSE st

\* the descriptors the loop pushes an array for, in iteration order; for the
\* others pushPatchArray returns without touching the tables or the offsets
HasPatches(desc) == getValue(patchCtr[desc.pattern], desc) > 0

PlannedDescriptors == SelectSeq(Descriptors, HasPatches)

\* the loop over all descriptors, from the k-th planned one on
RECURSIVE PlanFrom(_, _)
PlanFrom(k, st) ==
    IF k > Len(PlannedDescriptors) THEN st
    ELSE PlanFrom(k + 1, pushPatchArray(PlannedDescriptors[k], st,
                                        patchCtr[PlannedDescriptors[k].pattern]))

\* FarPatchTables::GetNumControlVertices, GetNumPatches: totals over the arrays
RECURSIVE TotalControlVertices(_, _)
TotalControlVertices(pa, k) ==
    IF k > Len(pa) THEN 0
    ELSE pa[k].npatches * GetNumControlVertices(pa[k].desc) + TotalControlVertices(pa, k + 1)

\* FarPatchTables::findPatchArray: the index of the array of desc, 0 if none
findPatchArray(pa, desc) ==
    IF \E k \in 1..Len(pa) : pa[k].desc = desc
    THEN CHOOSE k \in 1..Len(pa) : pa[k].desc = desc /\ \A j \in 1 .. (k - 1) : pa[j].desc # desc
    ELSE 0

NullPtr == -1

NullPointers == [ R |-> NullPtr, B |-> [ r \in 0..3 |-> NullPtr ],
                  C |-> [ r \in 0..3 |-> NullPtr ], G |-> [ g \in 0..1 |-> NullPtr ] ]

\* the values Create is called with
SmallValence == 2
LargeValence == 5
MaxValences == { SmallValence, LargeValence }

\* Create, up to the allocation of the tables
CreatePlan ==
    /\ pc = "constructed"
    /\ maxvalence' \in MaxValences
    /\ LET st == PlanFrom(1, [ parray |-> << >>, voffset |-> 0, poffset |-> 0, qoffset |-> 0 ])
           nverts == TotalControlVertices(st.parray, 1)
       IN
        /\ parray' = st.parray
        /\ offsets' = [ voffset |-> st.voffset, poffset |-> st.poffset, qoffset |-> st.qoffset ]
        /\ patches' = [ k \in 0 .. (nverts - 1) |-> 0 ]
        /\ quadG' = [ C0 |-> [ k \in 0 .. (patchCtr[0].G[0] * 4 - 1) |-> 0 ],
                      C1 |-> [ k \in 0 .. (patchCtr[0].G[1] * 4 - 1) |-> 0 ],
                      C0_P |-> IF patchCtr[0].G[0] = 0 THEN NullPtr ELSE 0,
                      C1_P |-> IF patchCtr[0].G[1] = 0 THEN NullPtr ELSE 0 ]
    /\ iptrs' = [ p \in Patterns |-> NullPointers ]
    /\ pc' = "pointers"
    /\ UNCHANGED << inputVars, orderVars, vWasTagged, eTriHead, eTransition, childTags, flags,
                    patchCtr, outcome, idx, lastCall, table, lastRow, quadOffsetTable >>

\* the pointer the loop over all descriptors leaves for desc: the loop sets
\* iptrs[pa->GetDescriptor().GetPattern()].getValue(desc) when desc has an array
PointerOf(ptrs, desc) ==
    LET pa == findPatchArray(parray, desc)
    IN  IF pa = 0 \/ parray[pa].desc.pattern # desc.pattern THEN getValue(ptrs[desc.pattern], desc)
        ELSE parray[pa].vertIndex

PointAll(ptrs) ==
    [ p \in Patterns |->
        [ R |-> PointerOf(ptrs, Descriptor(p, "REGULAR", 0)),
          B |-> [ r \in 0..3 |-> PointerOf(ptrs, Descriptor(p, "BOUNDARY", r)) ],
          C |-> [ r \in 0..3 |-> PointerOf(ptrs, Descriptor(p, "CORNER", r)) ],
          G |-> [ g \in 0..1 |->
                    PointerOf(ptrs, Descriptor(p, IF g = 0 THEN "GREGORY" ELSE "GREGORY_BOUNDARY", 0)) ] ] ]

CreatePointers ==
    /\ pc = "pointers"
    /\ iptrs' = PointAll(iptrs)
    /\ pc' = "populate"
    /\ idx' = 0
    /\ UNCHANGED << inputVars, orderVars, vWasTagged, eTriHead, eTransition, childTags, flags,
                    patchCtr, outcome, maxvalence, parray, offsets, patches, quadG,
                    lastCall, table, lastRow, quadOffsetTable >>

----------------------------------------------------------------------------
(* getOneRing and getQuadOffsets.                                          *)

remapRegular == << 5, 6, 10, 9, 4, 0, 1, 2, 3, 7, 11, 15, 14, 13, 12, 8 >>
remapRegularBoundary == << 1, 2, 6, 5, 0, 3, 7, 11, 10, 9, 8, 4 >>
remapRegularCorner == << 1, 2, 5, 4, 0, 8, 7, 6, 3 >>

\* the number of vertices gathered in each inner loop over e = e->GetNext()
RingStep == 3

\* the origins of the RingStep edges that follow e
RECURSIVE NextOrigins(_, _)
NextOrigins(e, n) ==
    IF n = 0 THEN << >>
    ELSE << GetOrgVertex(GetNext(e)) >> \o NextOrigins(GetNext(e), n - 1)

\* f->GetVertex((i + rots) % 4)
RotatedVertex(f, rots, i) == GetVertex(f, (i + rots) % 4)

\* the 4 corners without the rotation
GatherCorners_Unrotated(f, rots) == [ k \in 1..4 |-> GetVertex(f, k - 1) ]

\* the 4 corners
GatherCorners(f, rots) == [ k \in 1..4 |-> RotatedVertex(f, rots, k - 1) ]

\* ringsize == 16: the round of the loop for corner i
RegularRound(f, rots, i) ==
    LET v0 == RotatedVertex(f, rots, i)
        v1 == RotatedVertex(f, rots, i + 1)
        e  == GetNextEdge(GetNextEdge(VertexGetEdge(v0, v1)))
    IN  NextOrigins(e, RingStep)

GatherRegular(f, rots) ==
    RegularRound(f, rots, 0) \o RegularRound(f, rots, 1)
    \o RegularRound(f, rots, 2) \o RegularRound(f, rots, 3)

\* ringsize == 12
GatherBoundary(f, rots) ==
    LET v == [ i \in 0..3 |-> RotatedVertex(f, rots, i) ]
    IN  << GetOrgVertex(GetPrev(GetOpposite(GetPrev(GetIncidentEdge(v[0]))))) >>
        \o << GetDestVertex(GetIncidentEdge(v[1])) >>
        \o NextOrigins(GetNextEdge(VertexGetEdge(v[2], v[1])), RingStep)
        \o NextOrigins(GetNextEdge(VertexGetEdge(v[3], v[2])), RingStep)

\* ringsize == 9
GatherCorner(f, rots) ==
    LET v0 == RotatedVertex(f, rots, 0)
        v2 == RotatedVertex(f, rots, 2)
        v3 == RotatedVertex(f, rots, 3)
    IN  << GetOrgVertex(GetPrev(GetOpposite(GetPrev(GetIncidentEdge(v0))))) >>
        \o << GetDestVertex(GetIncidentEdge(v2)) >>
        \o NextOrigins(GetNextEdge(VertexGetEdge(v3, v2)), RingStep)

\* the vertices getOneRing reads, in the order of its writes
GatherVertices(f, ringsize, rots) ==
    GatherCorners(f, rots) \o
    (CASE ringsize = 16 -> GatherRegular(f, rots)
       [] ringsize = 12 -> GatherBoundary(f, rots)
       [] ringsize = 9 -> GatherCorner(f, rots)
       [] OTHER -> << >>)

\* getOneRing with f's rotation taken as rots: the writes result[slot] = value
\* in order, and whether a null edge or vertex was dereferenced on the way
RingWrites(g, ringsize, remap) ==
    [ writes   |-> [ k \in 1..Len(g) |->
                       [ slot  |-> remap[((k - 1) % ringsize) + 1],
                         value |-> IF g[k] = NoVert THEN NoVert ELSE remapTable[g[k]] ] ],
      idx      |-> Len(g),
      nullSeen |-> \E k \in 1..Len(g) : g[k] = NoVert ]

getOneRingRotated(f, ringsize, remap, rots) ==
    RingWrites(GatherVertices(f, ringsize, rots), ringsize, remap)

getOneRing(f, ringsize, remap) == getOneRingRotated(f, ringsize, remap, flags[f].rots)

\* GatherOffsetsOperator over the surrounding vertices of corner i of f:
\* the indices of the surrounding vertices that are vertices of f
GatheredOffsets(f, i) ==
    LET ring == SurroundingVertices(GetVertex(f, i))
        hit  == { k \in 1..Len(ring) : ring[k] \in FaceVertices(f) }
        lo   == IF hit = {} THEN 0 ELSE (CHOOSE k \in hit : \A o \in hit : k <= o) - 1
        rest == { k \in hit : k - 1 # lo }
        hi   == IF rest = {} THEN 0 ELSE (CHOOSE k \in rest : \A o \in rest : k <= o) - 1
    IN  [ offsets |-> << lo, hi >>, count |-> Cardinality(hit) ]

\* the pair as gathered
SwapOffsets_Never(o) == o

\* "if (op.offsets[1] - op.offsets[0] != 1) std::swap(...)"
SwapOffsets(o) == IF o[2] - o[1] # 1 THEN << o[2], o[1] >> ELSE o

\* the pair of corner i of f after the swap
QuadOffsetPair(f, i) == SwapOffsets(GatheredOffsets(f, i).offsets)

\* the two offsets added without the shift
PackOffsets_Unshifted(o) == o[1] + o[2]

\* offsets[0] | (offsets[1] << 8)
PackOffsets(o) == o[1] + o[2] * 256

getQuadOffsets(f) == [ i \in 0..3 |-> PackOffsets(QuadOffsetPair(f, i)) ]

----------------------------------------------------------------------------
(* Create: the population loop, one face per step.                         *)

isTransitionPatch(f) == flags[f].transitionType # kNoTransition

\* buf after the writes buf[base + w.slot] = w.value, in order
StoreWrites(buf, base, writes) ==
    [ k \in DOMAIN buf |->
        LET at == { n \in 1..Len(writes) : base + writes[n].slot = k }
        IN  IF at = {} THEN buf[k]
            ELSE writes[CHOOSE n \in at : \A o \in at : o <= n].value ]

\* a write through a null pointer or past the end of its table
WildWrite(buf, base, writes) ==
    \/ base = NullPtr
    \/ \E n \in 1..Len(writes) : (base + writes[n].slot) \notin DOMAIN buf

\* what one round of the loop leaves: st is [ fl, ptrs, pat, quad, call, status ]
Unpopulated(f) ==
    [ fl |-> flags[f], ptrs |-> iptrs, pat |-> patches, quad |-> quadG,
      call |-> << >>, status |-> "ok" ]

\* getOneRing(f, ringsize, remap, ptr); ptr += ringsize, for the bucket of desc
StoreRing(f, fl, ringsize, desc, base, ring) ==
    [ fl     |-> fl,
      ptrs   |-> [ iptrs EXCEPT ![desc.pattern] = setValue(@, desc, base + ringsize) ],
      pat    |-> StoreWrites(patches, base, ring.writes),
      quad   |-> quadG,
      call   |-> [ kind |-> "getOneRing", face |-> f, desc |-> desc, ringsize |-> ringsize,
                   base |-> base, writes |-> ring.writes, idx |-> ring.idx ],
      status |-> IF ring.nullSeen \/ WildWrite(patches, base, ring.writes) THEN "undefined"
                 ELSE IF ring.idx # ringsize THEN "aborted"
                 ELSE "ok" ]

PopulateRing(f, fl, ringsize, remap, desc) ==
    StoreRing(f, fl, ringsize, desc, getValue(iptrs[desc.pattern], desc),
              getOneRingRotated(f, ringsize, remap, fl.rots))

\* the 4 control vertices and the quad offsets of a Gregory face; g is 0 or 1
StoreGregory(f, g, quads, pairs) ==
    LET base   == iptrs[0].G[g]
        cvs    == [ k \in 1..4 |-> [ slot |-> k - 1, value |-> remapTable[GetVertex(f, k - 1)] ] ]
        qbuf   == IF g = 0 THEN quadG.C0 ELSE quadG.C1
        qbase  == IF g = 0 THEN quadG.C0_P ELSE quadG.C1_P
        words  == [ k \in 1..4 |-> [ slot |-> k - 1, value |-> quads[k - 1] ] ]
        qnew   == StoreWrites(qbuf, qbase, words)
    IN  [ fl     |-> flags[f],
          ptrs   |-> [ iptrs EXCEPT ![0].G[g] = base + 4 ],
          pat    |-> StoreWrites(patches, base, cvs),
          quad   |-> IF g = 0 THEN [ quadG EXCEPT !.C0 = qnew, !.C0_P = qbase + 4 ]
                     ELSE [ quadG EXCEPT !.C1 = qnew, !.C1_P = qbase + 4 ],
          call   |-> [ kind |-> "getQuadOffsets", face |-> f, g |-> g, base |-> qbase,
                       pairs |-> pairs, writes |-> words ],
          status |-> IF WildWrite(patches, base, cvs) \/ WildWrite(qbuf, qbase, words)
                     THEN "undefined" ELSE "ok" ]

PopulateGregory(f, g) ==
    StoreGregory(f, g, getQuadOffsets(f), [ i \in 0..3 |-> QuadOffsetPair(f, i) ])

\* "if (not f->isTransitionPatch())"
PopulateFull(f) ==
    LET fl == flags[f]
        b  == [ fl EXCEPT !.brots = (fl.rots + 1) % 4 ]
    IN  IF fl.patchType = "kFull"
        THEN IF ~fl.isExtraordinary /\ fl.bverts # 1
             THEN CASE fl.bverts = 0 ->
                         PopulateRing(f, fl, 16, remapRegular, Descriptor(0, "REGULAR", 0))
                    [] fl.bverts = 2 ->
                         PopulateRing(f, b, 12, remapRegularBoundary, Descriptor(0, "BOUNDARY", 0))
                    [] fl.bverts = 3 ->
                         PopulateRing(f, b, 9, remapRegularCorner, Descriptor(0, "CORNER", 0))
                    [] OTHER ->     \* assert(0)
                         [ Unpopulated(f) EXCEPT !.status = "aborted" ]
             ELSE Unpopulated(f)
        ELSE IF fl.patchType = "kGregory"
        THEN PopulateGregory(f, IF fl.bverts = 0 THEN 0 ELSE 1)
        ELSE Unpopulated(f)

\* transition patches
PopulateTransition(f) ==
    LET fl    == flags[f]
        tcase == fl.transitionType + 1
    IN  IF ~fl.isExtraordinary /\ fl.bverts # 1
        THEN CASE fl.bverts = 0 ->
                    PopulateRing(f, fl, 16, remapRegular, Descriptor(tcase, "REGULAR", 0))
               [] fl.bverts = 2 ->
                    PopulateRing(f, fl, 12, remapRegularBoundary,
                                 Descriptor(tcase, "BOUNDARY", fl.brots))
               [] fl.bverts = 3 ->
                    PopulateRing(f, fl, 9, remapRegularCorner,
                                 Descriptor(tcase, "CORNER", fl.brots))
               [] OTHER -> Unpopulated(f)
        ELSE [ Unpopulated(f) EXCEPT !.status = "aborted" ]     \* assert(false)

PopulateFace(f) == IF isTransitionPatch(f) THEN PopulateTransition(f) ELSE PopulateFull(f)

\* a round that also stores the boundary rotation as the rotation of the face
PopulateStep_StoresRotation(r) ==
    /\ flags' = [ flags EXCEPT ![idx] = [ r.fl EXCEPT !.rots = r.fl.brots ] ]
    /\ iptrs' = r.ptrs
    /\ patches' = IF r.status = "undefined" THEN patches ELSE r.pat
    /\ quadG' = IF r.status = "undefined" THEN quadG ELSE r.quad
    /\ lastCall' = r.call
    /\ pc' = IF r.status # "ok" THEN r.status
              ELSE IF idx + 1 < GetNumFaces THEN "populate" ELSE "valence"
    /\ idx' = IF r.status = "ok" /\ idx + 1 < GetNumFaces THEN idx + 1 ELSE 0

\* the state after the round of the loop whose result is r
PopulateStep(r) ==
    /\ flags' = [ flags EXCEPT ![idx] = r.fl ]
    /\ iptrs' = r.ptrs
    /\ patches' = IF r.status = "undefined" THEN patches ELSE r.pat
    /\ quadG' = IF r.status = "undefined" THEN quadG ELSE r.quad
    /\ lastCall' = r.call
    /\ pc' = IF r.status # "ok" THEN r.status
              ELSE IF idx + 1 < GetNumFaces THEN "populate" ELSE "valence"
    /\ idx' = IF r.status = "ok" /\ idx + 1 < GetNumFaces THEN idx + 1 ELSE 0

Populate ==
    /\ pc = "populate"
    /\ PopulateStep(PopulateFace(idx))
    /\ UNCHANGED << inputVars, orderVars, vWasTagged, eTriHead, eTransition, childTags, patchCtr,
                    outcome, maxvalence, parray, offsets, table, lastRow, quadOffsetTable >>

----------------------------------------------------------------------------
(* Create: the vertex valence table, one vertex per step, and the end.     *)

perVertexValenceSize == 2 * maxvalence + 1

constructorVars == << vWasTagged, eTriHead, eTransition, childTags, patchCtr, outcome >>

\* "if ((_patchCtr[0].G[0] > 0) or (_patchCtr[0].G[1] > 0))": resize, else clear
ValenceResize ==
    /\ pc = "valence"
    /\ IF patchCtr[0].G[0] > 0 \/ patchCtr[0].G[1] > 0
       THEN /\ table' = [ k \in 0 .. (GetNumMeshVertices * perVertexValenceSize - 1) |-> 0 ]
            /\ pc' = "rows"
       ELSE /\ table' = << >>
            /\ pc' = "combine"
    /\ idx' = 0
    /\ UNCHANGED << inputVars, orderVars, constructorVars, flags, maxvalence, parray, offsets, iptrs,
                    patches, quadG, lastCall, lastRow, quadOffsetTable >>

\* the diagonal GatherNeighborsOperator resolves for the neighbour n of center
Diagonal(center, n) ==
    LET e == VertexGetEdge(center, n)
    IN  IF e # NoEdge THEN GetDestVertex(GetNext(e)) ELSE n

\* GatherNeighborsOperator applied to the surrounding vertices of v: the writes
\* table[offset++] = ..., in order, starting at slot `first`
GatherNeighbors(v, first) ==
    LET ring == SurroundingVertices(v)
    IN  [ k \in 1 .. (2 * Len(ring)) |->
            LET n == ring[(k + 1) \div 2]
            IN  [ slot  |-> first + k - 1,
                  value |-> IF k % 2 = 1 THEN remapTable[n] ELSE remapTable[Diagonal(v, n)] ] ]

\* op.valence after the traversal: one per call of the operator
GatheredValence(v) == Len(SurroundingVertices(v))

\* the sign bit marks boundary vertices
SignedValence(v, valence) == IF OnBoundary(v) THEN 0 - valence ELSE valence

\* one round of the loop over the vertices: the writes into table, in order
ValenceRowWrites(v) ==
    LET offset == remapTable[v] * perVertexValenceSize
    IN  IF ~IsConnected(v)
        THEN << [ slot |-> offset, value |-> 0 ] >>
        ELSE GatherNeighbors(v, offset + 1)
             \o << [ slot |-> offset, value |-> SignedValence(v, GatheredValence(v)) ] >>

ValenceRow ==
    /\ pc = "rows"
    /\ LET v      == idx
           writes == ValenceRowWrites(v)
           wild   == WildWrite(table, 0, writes)
       IN
        /\ table' = IF wild THEN table ELSE StoreWrites(table, 0, writes)
        /\ lastRow' = [ vertex |-> v, offset |-> remapTable[v] * perVertexValenceSize,
                        slots |-> { writes[k].slot : k \in 1..Len(writes) },
                        pairs |-> (Len(writes) - 1) \div 2 ]
        /\ pc' = IF wild THEN "undefined"
                  ELSE IF idx + 1 < GetNumMeshVertices THEN "rows" ELSE "combine"
        /\ idx' = IF ~wild /\ idx + 1 < GetNumMeshVertices THEN idx + 1 ELSE 0
    /\ UNCHANGED << inputVars, orderVars, constructorVars, flags, maxvalence, parray, offsets, iptrs,
                    patches, quadG, lastCall, quadOffsetTable >>

\* "Combine quad offset buffers"
Combine ==
    /\ pc = "combine"
    /\ quadOffsetTable' =
          [ k \in 0 .. ((patchCtr[0].G[0] + patchCtr[0].G[1]) * 4 - 1) |->
              IF k < patchCtr[0].G[0] * 4 THEN quadG.C0[k]
              ELSE quadG.C1[k - patchCtr[0].G[0] * 4] ]
    /\ pc' = "done"
    /\ UNCHANGED << inputVars, orderVars, constructorVars, flags, idx, maxvalence, parray, offsets,
                    iptrs, patches, quadG, lastCall, table, lastRow >>

Next ==
    \/ FirstPass
    \/ SecondPass
    \/ CreatePlan
    \/ CreatePointers
    \/ Populate
    \/ ValenceResize
    \/ ValenceRow
    \/ Combine

Spec == Init /\ [][Next]_vars

----------------------------------------------------------------------------
(* The second loop of the constructor over the faces in a free order:     *)
(* mesh->GetFace(i) may number the faces in any way.                       *)

\* the largest mesh whose face orders are all explored
MaxFreeOrderFaces == 9

InitFreeOrder ==
    /\ Init
    /\ Len(Meshes[mesh].faces) <= MaxFreeOrderFaces
    /\ remapTable = [ v \in VertsOf(mesh) |-> v ]

\* the second loop passes face f and stores the round r it computed for it
SecondPassStep(f, r) ==
    /\ flags' = [ flags EXCEPT ![f] = r.fl ]
    /\ patchCtr' = r.ctr
    /\ outcome' = [ outcome EXCEPT ![f] = @ \cup r.out ]
    /\ visited' = visited \cup { f }
    /\ pc' = IF ~r.ok THEN "aborted"
              ELSE IF visited \cup { f } # Faces THEN "pass2" ELSE "constructed"

\* one round of the second loop, for any face it has not passed yet
SecondPassFreeOrder ==
    /\ pc = "pass2"
    /\ \E f \in Faces \ visited : SecondPassStep(f, SecondPassFace(f))
    /\ alone' = IF visited = {} THEN [ f \in Faces |-> SecondPassFace(f) ] ELSE alone
    /\ UNCHANGED << inputVars, vWasTagged, eTriHead, eTransition, childTags, idx, createVars >>

NextFreeOrder ==
    \/ FirstPass
    \/ SecondPassFreeOrder

SpecFreeOrder == InitFreeOrder /\ [][NextFreeOrder]_vars

----------------------------------------------------------------------------
(* Properties of the constructor.                                          *)

\* the constructor has returned
Constructed == pc \notin { "pass1", "pass2", "aborted" }

\* what the second pass left on face f, read from the flags it wrote
FaceOutcomes(f) ==
    (IF FaceIsExtraordinary(f) THEN { "extraordinary" } ELSE {})
    \cup (IF ~FaceIsExtraordinary(f) /\ ~IsHole(f) /\ f \in fTagged THEN { "tagged" } ELSE {})
    \cup (IF flags[f].patchType = "kFull" THEN { "full" } ELSE {})
    \cup (IF flags[f].patchType = "kGregory" THEN { "gregory" } ELSE {})
    \cup (IF flags[f].transitionType # kNoTransition THEN { "transition" } ELSE {})

\* C1, as stated: after the second pass every face has at most one of the
\* outcomes tagged-skip, Full, Gregory, Transition, extraordinary-skip, and
\* every face that is not a hole has exactly one.
C1_AsStated ==
    Constructed =>
        \A f \in Faces :
            /\ Cardinality(FaceOutcomes(f)) <= 1
            /\ ~IsHole(f) => Cardinality(FaceOutcomes(f)) = 1

\* C1, amended: after the second pass no face has two of the outcomes, and a
\* face that is not a hole has none of them exactly when it is a quad that is
\* not tagged and has a tagged vertex or no vertex that was tagged; every
\* other face that is not a hole has exactly one.
C1_Outcomes ==
    Constructed =>
        \A f \in Faces :
            /\ Cardinality(FaceOutcomes(f)) <= 1
            /\ ~IsHole(f) =>
                  (FaceOutcomes(f) = {}
                     <=> /\ ~FaceIsExtraordinary(f)
                         /\ f \notin fTagged
                         /\ (isTagged(f) \/ ~wasTagged(f)))

\* C1, witness: a constructed mesh with a Full face, a Transition face, a
\* face skipped as tagged and a face left with no outcome
C1_Witness ==
    /\ Constructed
    /\ \E f \in Faces : FaceOutcomes(f) = { "full" }
    /\ \E f \in Faces : FaceOutcomes(f) = { "transition" }
    /\ \E f \in Faces : FaceOutcomes(f) = { "tagged" }
    /\ \E f \in Faces : ~IsHole(f) /\ FaceOutcomes(f) = {} /\ isTagged(f)

\* the sum of the counters of one pattern, and of all patterns
SumValues(pt) ==
    pt.R + pt.B[0] + pt.B[1] + pt.B[2] + pt.B[3]
         + pt.C[0] + pt.C[1] + pt.C[2] + pt.C[3] + pt.G[0] + pt.G[1]

RECURSIVE SumCountersFrom(_)
SumCountersFrom(p) == IF p >= NumPatterns THEN 0 ELSE SumValues(patchCtr[p]) + SumCountersFrom(p + 1)

\* the faces that are not holes, not extraordinary and not tagged
EligibleFaces == { f \in Faces : ~IsHole(f) /\ ~FaceIsExtraordinary(f) /\ f \notin fTagged }

\* C2, as stated: when the constructor returns, the sum of all counters of
\* all patterns equals the number of faces that are not holes, not
\* extraordinary and not tagged.
C2_AsStated == Constructed => SumCountersFrom(0) = Cardinality(EligibleFaces)

----------------------------------------------------------------------------
(* Properties of Create.                                                   *)

\* Create has run its planning loop
Planned == maxvalence # 0

\* the position of a descriptor in the iteration order
DescriptorIndex(desc) == CHOOSE k \in 1..Len(Descriptors) : Descriptors[k] = desc

\* C3: after the planning loop the patch arrays are the buckets with a nonzero
\* count, in descriptor order, as many as getNumPatchArrays; the first array
\* starts at vertex, patch and quad offset 0, each later array starts where
\* the previous one ends, and the quad offset advances by 4 per patch only
\* past the GREGORY array.
C3_Packed ==
    Planned =>
        /\ Len(parray) = getNumPatchArrays
        /\ \A d \in { Descriptors[k] : k \in 1..Len(Descriptors) } :
              getValue(patchCtr[d.pattern], d) # 0 <=> \E k \in 1..Len(parray) : parray[k].desc = d
        /\ \A k \in 1..Len(parray) :
              /\ parray[k].npatches = getValue(patchCtr[parray[k].desc.pattern], parray[k].desc)
              /\ parray[k].npatches > 0
              /\ k = 1 => /\ parray[k].vertIndex = 0
                          /\ parray[k].patchIndex = 0
                          /\ parray[k].quadOffsetIndex = 0
              /\ k > 1 =>
                    LET prev == parray[k - 1]
                    IN  /\ DescriptorIndex(prev.desc) < DescriptorIndex(parray[k].desc)
                        /\ parray[k].vertIndex
                              = prev.vertIndex + prev.npatches * GetNumControlVertices(prev.desc)
                        /\ parray[k].patchIndex = prev.patchIndex + prev.npatches
                        /\ parray[k].quadOffsetIndex
                              = prev.quadOffsetIndex
                                + (IF prev.desc.type = "GREGORY" THEN prev.npatches * 4 ELSE 0)

\* C3, witness: a plan in which the GREGORY array is followed by another array
C3_Witness ==
    /\ Planned
    /\ \E k \in 2..Len(parray) :
          /\ parray[k - 1].desc.type = "GREGORY"
          /\ parray[k].quadOffsetIndex = 4 * parray[k - 1].npatches
          /\ parray[k].vertIndex = 4 * parray[k - 1].npatches

\* the population loop has just called getQuadOffsets and stored its result
QuadOffsetsStored ==
    /\ lastCall # << >>
    /\ lastCall.kind = "getQuadOffsets"
    /\ pc \in { "populate", "valence" }

\* the two offsets packed in the word getQuadOffsets wrote for corner i
UnpackedOffset0(i) == lastCall.writes[i + 1].value % 256
UnpackedOffset1(i) == lastCall.writes[i + 1].value \div 256

\* the number of surrounding vertices of corner i of the face of the call
CornerRingSize(i) == Len(SurroundingVertices(GetVertex(lastCall.face, i)))

RowWritten == lastRow # << >> /\ pc \in { "rows", "combine", "done" }

\* the slots of the row of the vertex of the last round
RowSlots == lastRow.offset .. (lastRow.offset + perVertexValenceSize - 1)

\* the (neighbor, diagonal) pairs of the last round that lie in its row
PairsInRow ==
    Cardinality({ k \in 1..lastRow.pairs :
                    { lastRow.offset + 2 * k - 1, lastRow.offset + 2 * k } \subseteq RowSlots })

AbsoluteValue(n) == IF n < 0 THEN 0 - n ELSE n

\* C5, as stated: for every vertex the valence loop has processed, the
\* absolute value of slot 0 of its row equals the number of (neighbor,
\* diagonal) pairs written into that row, and slot 0 is negative exactly when
\* the vertex is on the boundary.
C5_AsStated ==
    RowWritten =>
        /\ AbsoluteValue(table[lastRow.offset]) = PairsInRow
        /\ table[lastRow.offset] < 0 <=> OnBoundary(lastRow.vertex)

\* C6, as stated: when maxvalence is smaller than the valence of a connected
\* vertex, the round of that vertex writes no slot outside the row of the
\* vertex and raises no error.
C6_AsStated ==
    (lastRow # << >> /\ lastRow.pairs > maxvalence) =>
        /\ lastRow.slots \subseteq RowSlots
        /\ pc # "undefined"

----------------------------------------------------------------------------
(* Scenarios of the constructor.                                           *)

\* mesh 3, the 4x4 grid of quads, coarse and without tags
CoarseGridUntagged == mesh = 3 /\ coarse /\ fTagged = {} /\ vTagged = {} /\ holes = {}

\* C7, as stated: for a 4x4 grid of coarse quads without tagged faces and
\* vertices, after construction every counter is zero and every face carries
\* the End patch type.
C7_AsStated ==
    (Constructed /\ CoarseGridUntagged) =>
        /\ \A p \in Patterns : patchCtr[p] = ZeroCounter
        /\ \A f \in Faces : flags[f].patchType = "kEnd"

\* C7, amended: for a 4x4 grid of coarse quads without tagged faces and
\* vertices, after construction every face carries the Full patch type, the
\* 4 interior faces are counted as regular patches, the 8 edge faces as
\* boundary patches and the 4 corner faces as corner patches of the
\* non-transition pattern, all with rotation index 0, and every other counter
\* is zero.
C7_FullGrid ==
    (Constructed /\ CoarseGridUntagged) =>
        /\ patchCtr[0] = [ ZeroCounter EXCEPT !.R = 4, !.B[0] = 8, !.C[0] = 4 ]
        /\ \A p \in Patterns \ { 0 } : patchCtr[p] = ZeroCounter
        /\ \A f \in Faces : flags[f].patchType = "kFull" /\ flags[f].transitionType = kNoTransition

\* C7, witness: the constructor has returned for the coarse untagged grid,
\* whose vertices the first pass marked wasTagged
C7_Witness ==
    /\ pc = "constructed"
    /\ CoarseGridUntagged
    /\ vWasTagged = Verts
    /\ SumCountersFrom(0) = GetNumFaces

\* t is the only tagged face of a mesh of quads and has four edge neighbours
IsolatedTagged(t) ==
    /\ fTagged = { t }
    /\ \A f \in Faces : ~FaceIsExtraordinary(f)
    /\ \A e \in FaceEdges(t) : GetRightFace(e) # NoFace
    /\ Cardinality({ GetRightFace(e) : e \in FaceEdges(t) }) = 4

Neighbours(t) == { GetRightFace(e) : e \in FaceEdges(t) }

\* the neighbours of t that the second pass classifies
ClassifiedNeighbours(t) ==
    { n \in Neighbours(t) : ~IsHole(n) /\ ~isTagged(n) /\ wasTagged(n) }

\* the classified neighbours of t that the second pass counts
CountedNeighbours(t) ==
    { n \in ClassifiedNeighbours(t) : ~isExtraordinary(n) /\ boundaryVerts(n) \in { 0, 2, 3 } }

----------------------------------------------------------------------------
(* Properties of getOneRing.                                               *)

\* the population loop has just called getOneRing
RingCalled == lastCall # << >> /\ lastCall.kind = "getOneRing"

\* ... for a regular interior face, with ringsize 16
RegularRingCalled ==
    /\ RingCalled
    /\ lastCall.ringsize = 16
    /\ boundaryVerts(lastCall.face) = 0
    /\ ~isExtraordinary(lastCall.face)

\* the array a sequence of writes leaves: slot |-> the last value written
ResultOf(writes) ==
    [ s \in { writes[k].slot : k \in 1..Len(writes) } |->
        writes[CHOOSE k \in 1..Len(writes) :
                 writes[k].slot = s /\ \A o \in 1..Len(writes) : writes[o].slot = s => o <= k].value ]

\* one unit rotation of a face: "rots = (rots + 1) % 4"
UnitRotation(r) == (r + 1) % 4

\* the slots of the 4 corners and of the t-th vertex of round i of the ring
CornerSlot(k) == remapRegular[k + 1]
RoundSlot(i, t) == remapRegular[4 + 3 * i + t + 1]

\* C9: for a regular interior face, getOneRing with the stored rotation r and
\* with rotation 0 yield the same set of 16 control vertices; the corner
\* slots of the rotation-r result hold the rotation-0 corners shifted by r,
\* and so do the four rounds of the ring; four successive unit rotations
\* reproduce the result.
C9_RotationConsistent ==
    RegularRingCalled =>
        LET f  == lastCall.face
            r  == flags[f].rots
            rr == ResultOf(lastCall.writes)
            r0 == ResultOf(getOneRingRotated(f, 16, remapRegular, 0).writes)
        IN  /\ DOMAIN rr = 0..15 /\ DOMAIN r0 = 0..15
            /\ { rr[s] : s \in 0..15 } = { r0[s] : s \in 0..15 }
            /\ Cardinality({ rr[s] : s \in 0..15 }) = 16
            /\ \A k \in 0..3 : rr[CornerSlot(k)] = r0[CornerSlot((k + r) % 4)]
            /\ \A i \in 0..3 : \A t \in 0..2 : rr[RoundSlot(i, t)] = r0[RoundSlot((i + r) % 4, t)]
            /\ getOneRingRotated(f, 16, remapRegular, UnitRotation(r)).writes # lastCall.writes
            /\ getOneRingRotated(f, 16, remapRegular,
                     UnitRotation(UnitRotation(UnitRotation(UnitRotation(r))))).writes
                  = lastCall.writes
            /\ ResultOf(getOneRingRotated(f, 16, remapRegular,
                     UnitRotation(UnitRotation(UnitRotation(UnitRotation(0))))).writes) = r0

\* C9, witness: getOneRing has gathered the ring of a regular interior face
\* whose stored rotation is 3
C9_Witness ==
    /\ RegularRingCalled
    /\ flags[lastCall.face].rots = 3
    /\ pc = "populate"

\* C10, as stated: every call of getOneRing with ringsize 16, 12 or 9 writes
\* each of the slots 0..ringsize-1 of its result exactly once and no other
\* slot, without running into undefined behaviour, and ends with
\* idx == ringsize.
C10_AsStated ==
    RingCalled =>
        /\ lastCall.ringsize \in { 16, 12, 9 }
        /\ \A s \in 0 .. (lastCall.ringsize - 1) :
              Cardinality({ k \in 1..Len(lastCall.writes) : lastCall.writes[k].slot = s }) = 1
        /\ \A k \in 1..Len(lastCall.writes) : lastCall.writes[k].slot \in 0 .. (lastCall.ringsize - 1)
        /\ lastCall.idx = lastCall.ringsize
        /\ lastCall.base # NullPtr
        /\ \A k \in 1..Len(lastCall.writes) : lastCall.writes[k].value # NoVert
        /\ pc \notin { "aborted", "undefined" } \/ lastRow # << >>

----------------------------------------------------------------------------
(* Properties of the assembled tables.                                     *)

\* Create has returned
Created == pc = "done"

\* the Gregory faces of the population loop: g = 0 regular, g = 1 boundary
GregoryFaces(g) ==
    { f \in Faces : /\ flags[f].transitionType = kNoTransition
                    /\ flags[f].patchType = "kGregory"
                    /\ (g = 0 <=> flags[f].bverts = 0) }

\* the number of Gregory faces of the same block that precede f in face order
GregoryRank(f, g) == Cardinality({ o \in GregoryFaces(g) : o < f })

\* the word offset0 | (offset1 << 8) of corner i of face f
QuadOffsetWord(f, i) == QuadOffsetPair(f, i)[1] + QuadOffsetPair(f, i)[2] * 256

\* C11: when Create returns, the quad-offset buffer has
\* (gregoryRegularCount + gregoryBoundaryCount) * 4 words; the words of the
\* k-th Gregory-regular face in face order are at 4k..4k+3, those of the k-th
\* Gregory-boundary face at 4*gregoryRegularCount + 4k .. +3, each word is
\* offset0 | (offset1 << 8) of its corner, and the two blocks do not overlap.
C11_QuadOffsetBlocks ==
    Created =>
        /\ DOMAIN quadOffsetTable = 0 .. ((patchCtr[0].G[0] + patchCtr[0].G[1]) * 4 - 1)
        /\ \A g \in 0..1 : Cardinality(GregoryFaces(g)) = patchCtr[0].G[g]
        /\ \A f \in GregoryFaces(0) : \A i \in 0..3 :
              quadOffsetTable[4 * GregoryRank(f, 0) + i] = QuadOffsetWord(f, i)
        /\ \A f \in GregoryFaces(1) : \A i \in 0..3 :
              quadOffsetTable[4 * patchCtr[0].G[0] + 4 * GregoryRank(f, 1) + i]
                 = QuadOffsetWord(f, i)
        /\ \A f \in GregoryFaces(0) : \A b \in GregoryFaces(1) :
              4 * GregoryRank(f, 0) + 3 < 4 * patchCtr[0].G[0] + 4 * GregoryRank(b, 1)

\* C11, witness: Create has returned a buffer with a Gregory-regular block
\* followed by a Gregory-boundary block of several faces, with words that
\* have a nonzero second offset
C11_Witness ==
    /\ Created
    /\ patchCtr[0].G[0] > 0
    /\ patchCtr[0].G[1] > 1
    /\ \E f \in GregoryFaces(1) :
          /\ GregoryRank(f, 1) > 0
          /\ \E i \in 0..3 : QuadOffsetPair(f, i)[2] > 0
    /\ \E k \in DOMAIN quadOffsetTable : quadOffsetTable[k] >= 256

----------------------------------------------------------------------------
(* The tag fields of the mesh during Create.                               *)

\* Create is running: the constructor has returned and Create has not
InCreate == pc \in { "constructed", "pointers", "populate", "valence", "rows", "combine" }

\* the tag fields of the faces, edges and vertices of the mesh
meshTags == << fTagged, vTagged, vWasTagged, eTriHead, eTransition, childTags, flags >>

\* C12, as stated: no step of Create changes a tag field of a face, an edge
\* or a vertex of the mesh.
C12_AsStated == [][InCreate => UNCHANGED meshTags]_vars

\* the round of the population loop for f is one of a Full boundary or corner
\* face, the two cases that store brots
StoresBoundaryRotation(f) ==
    /\ pc = "populate"
    /\ f = idx
    /\ ~isTransitionPatch(f)
    /\ flags[f].patchType = "kFull"
    /\ ~flags[f].isExtraordinary
    /\ flags[f].bverts \in { 2, 3 }

\* C12, amended: a step of Create changes no tag field of the mesh but the
\* boundary rotation of the Full boundary or corner face its population loop
\* is at, which it sets to (rotation + 1) mod 4.
C12_OnlyBoundaryRotation ==
    [][InCreate =>
         /\ UNCHANGED << fTagged, vTagged, vWasTagged, eTriHead, eTransition, childTags >>
         /\ \A f \in Faces :
               flags'[f] = IF StoresBoundaryRotation(f)
                           THEN [ flags[f] EXCEPT !.brots = (flags[f].rots + 1) % 4 ]
                           ELSE flags[f]]_vars

\* C12, witness: the population loop has gathered the ring of a Full boundary
\* face and left it a boundary rotation other than the constructor's 0
C12_Witness ==
    /\ RingCalled
    /\ pc = "populate"
    /\ flags[lastCall.face].patchType = "kFull"
    /\ flags[lastCall.face].bverts = 2
    /\ flags[lastCall.face].transitionType = kNoTransition
    /\ flags[lastCall.face].brots = (flags[lastCall.face].rots + 1) % 4
    /\ flags[lastCall.face].brots # 0

----------------------------------------------------------------------------
(* Transition faces.                                                       *)

\* the second pass has given f a transition pattern
ClassifiedTransition(f) == flags[f].transitionType # kNoTransition

\* a transition face the regular, boundary and corner buckets do not cover
UnsupportedTransition(f) ==
    /\ ClassifiedTransition(f)
    /\ triangleHeads(f) > 0
    /\ (isExtraordinary(f) \/ boundaryVerts(f) = 1)

\* C13, as stated: for every face with a triangle-head edge that is
\* extraordinary or has exactly one boundary vertex, the loops never get past
\* the face (construction aborts) and getOneRing is never called for it.
C13_AsStated ==
    \A f \in Faces :
        UnsupportedTransition(f) =>
            /\ ~(RingCalled /\ lastCall.face = f)
            /\ ~(pc = "populate" /\ idx > f)
            /\ pc \notin { "constructed", "pointers", "valence", "rows", "combine", "done" }

----------------------------------------------------------------------------
(* Faces without triangle heads.                                           *)

\* the quads that are not holes, not tagged, pass the guard of the
\* classification and have no triangle-head edge
HeadlessFaces ==
    { f \in Faces : /\ ~IsHole(f) /\ ~FaceIsExtraordinary(f) /\ f \notin fTagged
                    /\ ClassifyGuard(f) /\ triangleHeads(f) = 0 }

\* C14, as stated: after construction every quad that is not a hole, not
\* tagged and has no triangle-head edge is Full when it is not extraordinary
\* and its boundary-vertex count is not 1, and has then incremented the
\* regular (0 boundary vertices), boundary (2, rotation from the boundary
\* rule) or corner (3, rotation from the corner rule) counter of the
\* no-transition pattern; otherwise it is Gregory and has incremented the
\* Gregory-regular (0 boundary vertices) or Gregory-boundary counter.
C14_AsStated ==
    Constructed =>
        /\ \A f \in HeadlessFaces :
              IF RegularGuard(f)
              THEN /\ flags[f].patchType = "kFull"
                   /\ boundaryVerts(f) \in { 0, 2, 3 }
                   /\ boundaryVerts(f) = 2 => flags[f].rots = computeBoundaryPatchRotation(f)
                   /\ boundaryVerts(f) = 3 => flags[f].rots = computeCornerPatchRotation(f)
              ELSE flags[f].patchType = "kGregory"
        /\ patchCtr[0].R
              = Cardinality({ f \in HeadlessFaces : RegularGuard(f) /\ boundaryVerts(f) = 0 })
        /\ patchCtr[0].B[0]
              = Cardinality({ f \in HeadlessFaces : RegularGuard(f) /\ boundaryVerts(f) = 2 })
        /\ patchCtr[0].C[0]
              = Cardinality({ f \in HeadlessFaces : RegularGuard(f) /\ boundaryVerts(f) = 3 })
        /\ patchCtr[0].G[0]
              = Cardinality({ f \in HeadlessFaces : ~RegularGuard(f) /\ boundaryVerts(f) = 0 })
        /\ patchCtr[0].G[1]
              = Cardinality({ f \in HeadlessFaces : ~RegularGuard(f) /\ boundaryVerts(f) # 0 })
        /\ SumValues(patchCtr[0]) = Cardinality(HeadlessFaces)

----------------------------------------------------------------------------
(* Transition patterns and rotations.                                      *)

\* the faces that reach the switch over triangleHeads
TransitionFaces ==
    { f \in Faces : /\ ~IsHole(f) /\ ~FaceIsExtraordinary(f) /\ f \notin fTagged
                    /\ ClassifyGuard(f) /\ triangleHeads(f) > 0 }

\* the edges of f that are triangle heads, as indices
HeadIndices(f) == { j \in 0..3 : IsTriangleHead(GetEdge(f, j)) }

\* the smallest index of a set of edge indices
MinIndex(S) == CHOOSE j \in S : \A k \in S : j <= k

\* the face has its rotation overwritten by the boundary or corner rule
RuleRotated(f) == RegularGuard(f) /\ boundaryVerts(f) \in { 2, 3 }

\* the result of the boundary (2 vertices) or corner (3 vertices) rule
RuleRotation(f) ==
    IF boundaryVerts(f) = 2 THEN computeBoundaryPatchRotation(f)
    ELSE computeCornerPatchRotation(f)

\* C15, as stated: after construction a face with exactly one triangle-head
\* edge has transition pattern T0 and its rotation is the index of the first
\* edge that is not a head, scanning from edge 0.
C15_AsStated ==
    Constructed =>
        \A f \in TransitionFaces :
            triangleHeads(f) = 1 =>
                /\ flags[f].transitionType = kTransition0
                /\ flags[f].rots = MinIndex((0..3) \ HeadIndices(f))

\* C15, amended: after construction a classified face with exactly one
\* triangle-head edge has transition pattern T0; its rotation is the index
\* of its head edge, unless the face is not extraordinary and has 2 or 3
\* boundary vertices: then its rotation is the result of the boundary or
\* corner rule, and its boundary rotation is (4 - head index + rule result)
\* mod 4.
C15_HeadIndex ==
    Constructed =>
        \A f \in TransitionFaces :
            triangleHeads(f) = 1 =>
                /\ flags[f].transitionType = kTransition0
                /\ IF RuleRotated(f)
                   THEN /\ flags[f].rots = RuleRotation(f)
                        /\ flags[f].brots = (4 - MinIndex(HeadIndices(f)) + RuleRotation(f)) % 4
                   ELSE flags[f].rots = MinIndex(HeadIndices(f))

\* C15, witness: the constructor has returned with T0 faces whose head edge
\* is edge 0, edge 2 and edge 3, each with the rotation of its head edge
C15_Witness ==
    /\ pc = "constructed"
    /\ \A h \in { 0, 2, 3 } :
          \E f \in TransitionFaces :
              /\ HeadIndices(f) = { h }
              /\ ~RuleRotated(f)
              /\ flags[f].transitionType = kTransition0
              /\ flags[f].rots = h

\* two of the head edges H follow each other around the face
AdjacentHeads(H) == \E j \in H : (j + 1) % 4 \in H

\* the pattern and the rotation as functions of the set of head edges alone
HeadPattern(H) ==
    CASE Cardinality(H) = 2 -> IF AdjacentHeads(H) THEN kTransition1 ELSE kTransition4
      [] Cardinality(H) = 3 -> kTransition2
      [] Cardinality(H) = 4 -> kTransition3

HeadRotation(H) ==
    CASE Cardinality(H) = 2 ->
           IF AdjacentHeads(H) THEN MinIndex({ j \in H : (j + 3) % 4 \in H })
           ELSE MinIndex(H)
      [] Cardinality(H) = 3 -> CHOOSE j \in 0..3 : j \notin H
      [] Cardinality(H) = 4 -> 0

RuleRotatedFaces == { f \in TransitionFaces : RuleRotated(f) }

\* the rotation the switch over triangleHeads computes from the head edges
SwitchRotation(H) == IF Cardinality(H) = 1 THEN MinIndex(H) ELSE HeadRotation(H)

\* the faces of RuleRotatedFaces in the bucket (p, bv boundary vertices, r)
BucketFaces(p, bv, r) ==
    { f \in RuleRotatedFaces : /\ flags[f].transitionType + 1 = p
                               /\ boundaryVerts(f) = bv
                               /\ flags[f].brots = r }

\* the descriptor of the bucket of a boundary or corner transition face
BucketOf(f) ==
    Descriptor(flags[f].transitionType + 1,
               IF boundaryVerts(f) = 2 THEN "BOUNDARY" ELSE "CORNER", flags[f].brots)

----------------------------------------------------------------------------
(* The rotation rules.                                                     *)

\* the edges of f whose two endpoints are both boundary vertices, as indices
BoundaryEdgeIndices(f) ==
    { i \in 0..3 : OnBoundary(GetVertex(f, i)) /\ OnBoundary(GetVertex(f, (i + 1) % 4)) }

\* the two boundary vertices of f are diagonally opposite
DiagonalBoundary(f) ==
    /\ ~FaceIsExtraordinary(f)
    /\ boundaryVerts(f) = 2
    /\ \E i \in 0..1 : OnBoundary(GetVertex(f, i)) /\ OnBoundary(GetVertex(f, i + 2))

\* C18, as stated: for every quad with exactly 2 boundary vertices, adjacent
\* or diagonally opposite, computeBoundaryPatchRotation returns a value in
\* 0..3, the number of edges scanned from edge 0 before one whose two
\* endpoints are boundary vertices; for every quad with exactly 3 boundary
\* vertices computeCornerPatchRotation returns a value in 0..3.
C18_AsStated ==
    \A f \in Faces :
        ~FaceIsExtraordinary(f) =>
            /\ boundaryVerts(f) = 2 =>
                  /\ computeBoundaryPatchRotation(f) \in 0..3
                  /\ computeBoundaryPatchRotation(f) \in BoundaryEdgeIndices(f)
                  /\ \A i \in BoundaryEdgeIndices(f) : computeBoundaryPatchRotation(f) <= i
            /\ boundaryVerts(f) = 3 => computeCornerPatchRotation(f) \in 0..3

----------------------------------------------------------------------------
(* The marks of the first pass.                                            *)

\* the first pass has run over all faces
FirstPassDone == pc # "pass1"

\* the half-edges of the tagged faces and their opposites
TaggedFaceEdges ==
    UNION { FaceEdges(f) \cup ({ GetOpposite(e) : e \in FaceEdges(f) } \ { NoEdge }) :
            f \in fTagged }

\* C19, as stated: when the first pass has finished, every vertex of every
\* face that is coarse or tagged carries wasTagged, and a half-edge carries
\* isTriangleHead exactly when it is an edge of a tagged face or the opposite
\* of one.
C19_AsStated ==
    FirstPassDone =>
        /\ \A f \in Faces : (IsCoarse(f) \/ f \in fTagged) => FaceVertices(f) \subseteq vWasTagged
        /\ eTriHead = TaggedFaceEdges

\* C19, amended: when the first pass has finished, every vertex of every
\* coarse face carries wasTagged, the child vertex of every tagged face that
\* is not a hole carries wasTagged, and a half-edge carries isTriangleHead
\* exactly when it is an edge of a tagged face or the opposite of one; on a
\* mesh of faces that are not coarse no step of the pass marks a vertex of
\* the mesh wasTagged.
C19_FirstPassMarks ==
    /\ [](FirstPassDone =>
            /\ \A f \in Faces : IsCoarse(f) => FaceVertices(f) \subseteq vWasTagged
            /\ \A f \in fTagged : ~IsHole(f) => << "wasTagged", f >> \in childTags
            /\ eTriHead = TaggedFaceEdges)
    /\ [][(pc = "pass1" /\ ~IsCoarse(idx)) => UNCHANGED vWasTagged]_vars

\* C19, witness: the first pass has finished on a mesh of faces that are not
\* coarse, with a tagged face none of whose vertices carries wasTagged and a
\* triangle head on an edge of an untagged face
C19_Witness ==
    /\ pc = "pass2"
    /\ idx = 0
    /\ ~coarse
    /\ \E f \in fTagged :
          /\ ~IsHole(f)
          /\ FaceVertices(f) \cap vWasTagged = {}
          /\ << "wasTagged", f >> \in childTags
    /\ \E e \in eTriHead : e[1] \notin fTagged

----------------------------------------------------------------------------
(* The order of the faces in the second loop.                              *)

\* how many of the faces passed so far a round of their own counts in each
\* bucket of pattern p
CountedAlone(p) ==
    [ R |-> Cardinality({ f \in visited : alone[f].ctr[p].R = 1 }),
      B |-> [ r \in 0..3 |-> Cardinality({ f \in visited : alone[f].ctr[p].B[r] = 1 }) ],
      C |-> [ r \in 0..3 |-> Cardinality({ f \in visited : alone[f].ctr[p].C[r] = 1 }) ],
      G |-> [ g \in 0..1 |-> Cardinality({ f \in visited : alone[f].ctr[p].G[g] = 1 }) ] ]

\* C20: once the first pass is over, the second pass gives the same result in
\* every order of the faces: whatever faces the loop has passed, and in
\* whatever order, each of them carries the flags (patchType, transitionType,
\* rots, brots, bverts, isCritical) that a round on it alone at the start of
\* the loop gives, every counter bucket holds the number of passed faces that
\* such a round counts in it, and the loop stops early only at a face whose
\* own round fails its assertion.
C20_OrderIndependent ==
    visited # {} =>
        /\ \A f \in visited : flags[f] = alone[f].fl
        /\ patchCtr = [ p \in Patterns |-> CountedAlone(p) ]
        /\ pc = "aborted" <=> \E f \in visited : ~alone[f].ok
        /\ pc = "constructed" <=> (visited = Faces /\ \A f \in Faces : alone[f].ok)

\* the loop has passed every face but face 0, which it keeps for the end; among
\* the passed faces are a transition patch on a boundary and a full patch, and
\* face 0 is still to be counted
C20_Witness ==
    /\ pc = "pass2"
    /\ visited = Faces \ { 0 }
    /\ \E f \in visited : "transition" \in outcome[f] /\ flags[f].bverts = 2
    /\ \E f \in visited : flags[f].patchType = "kFull"
    /\ alone[0].ctr # patchCtr
    /\ alone[0].ctr # [ p \in Patterns |-> ZeroCounter ]

----------------------------------------------------------------------------
(* The writes of the population loop and the regions of the planner.      *)

\* index k of result->_patches lies in the region the planner reserved for
\* the array of desc
InRegion(desc, k) ==
    LET a == findPatchArray(parray, desc)
    IN  /\ a # 0
        /\ parray[a].vertIndex <= k
        /\ k < parray[a].vertIndex + parray[a].npatches * GetNumControlVertices(desc)

\* the population loop is over
Populated == pc \in { "valence", "rows", "combine", "done" }

\* where the pointer of desc stands when count faces were written through it
PointerAfter(desc, count) ==
    LET a == findPatchArray(parray, desc)
    IN  IF a = 0 THEN NullPtr
        ELSE parray[a].vertIndex + count * GetNumControlVertices(desc)

\* C21, as stated: whatever the mesh and its tags, every getOneRing call of
\* the population loop writes through a set pointer and only into the region
\* the planner reserved for the bucket of the face, and when the loop is over
\* the pointer of every (pattern, type, rotation) bucket has advanced by as
\* many faces as the constructor counted for the bucket.
C21_AsStated ==
    /\ (lastCall # << >> /\ lastCall.kind = "getOneRing") =>
            /\ lastCall.base # NullPtr
            /\ \A n \in 1..Len(lastCall.writes) :
                   InRegion(lastCall.desc, lastCall.base + lastCall.writes[n].slot)
    /\ Populated =>
            \A k \in 1..Len(Descriptors) :
                LET desc == Descriptors[k]
                IN  getValue(iptrs[desc.pattern], desc)
                      = PointerAfter(desc, getValue(patchCtr[desc.pattern], desc))

============================================================================
